---- MODULE Spec2Model ----
(***************************************************************************)
(* The match orchestrator of node-glob (src/glob.ts): class Glob, its      *)
(* constructor, process(), processSync(), doNonull(), finish(), sort().    *)
(*                                                                         *)
(* Strings are sequences of one-character strings.  A JavaScript Set is a  *)
(* sequence without repetitions (insertion order is observable).  Arrays   *)
(* are 1-based here: JavaScript index i is index i+1.                      *)
(***************************************************************************)
EXTENDS Integers, Sequences, FiniteSets, TLC

VARIABLES
    input,      \* the caller's arguments: pattern, options, host platform
    fs,         \* the filesystem: what each alternative's traversal finds
    fsFail,     \* the alternatives whose root cannot be read
    glob,       \* the current Glob instance, or NoGlob
    ctor,       \* outcome of the last constructor call
    heap,       \* the Set objects: 0 is glob.matches, i is walker i's own Set
    cache,      \* the GlobCache object handed to every walker
    walk,       \* per alternative: the state of its GlobWalker
    call,       \* the match operation in progress or last completed
    hist,       \* results of the completed match operations, oldest first
    nInst       \* number of Glob instances constructed so far

vars == <<input, fs, fsFail, glob, ctor, heap, cache, walk, call, hist, nInst>>

(***************************************************************************)
(* Bounds of the model.                                                    *)
(***************************************************************************)
MaxRuns == 2        \* match operations per behaviour
MaxInst == 2        \* Glob instances per behaviour

(***************************************************************************)
(* Strings.                                                                *)
(***************************************************************************)
Range(s) == {s[i] : i \in 1..Len(s)}

\* String.prototype.replace(/\\/g, '/')
ReplaceBackslashes(s) == [i \in 1..Len(s) |-> IF s[i] = "\\" THEN "/" ELSE s[i]]

\* String.prototype.includes('/')
IncludesSlash(s) == "/" \in Range(s)

\* `**/${p}`
GlobstarPrefix(p) == <<"*", "*", "/">> \o p

FirstIdx(s, c) ==
    IF c \in Range(s)
    THEN CHOOSE i \in 1..Len(s) : s[i] = c /\ \A j \in 1..(i - 1) : s[j] # c
    ELSE 0

RECURSIVE SplitOn(_, _)
SplitOn(s, c) ==
    LET i == FirstIdx(s, c)
    IN  IF i = 0 THEN <<s>>
        ELSE <<SubSeq(s, 1, i - 1)>> \o SplitOn(SubSeq(s, i + 1, Len(s)), c)

(***************************************************************************)
(* String.prototype.localeCompare(b, 'en'): primary weights of the whole   *)
(* strings first (punctuation below letters, case ignored), then case      *)
(* (lower before upper).  CodeUnit is the UTF-16 code unit, the order of   *)
(* Array.prototype.sort() without a comparator.                            *)
(***************************************************************************)
Primary(c) ==
    CASE c = "," -> 1 [] c = "{" -> 2 [] c = "}" -> 3 [] c = "*" -> 4
      [] c = "/" -> 5 [] c = "\\" -> 6
      [] c \in {"a", "A"} -> 10 [] c \in {"b", "B"} -> 11

Tertiary(c) == IF c \in {"A", "B"} THEN 1 ELSE 0

CodeUnit(c) ==
    CASE c = "*" -> 42 [] c = "," -> 44 [] c = "/" -> 47 [] c = "A" -> 65
      [] c = "B" -> 66 [] c = "\\" -> 92 [] c = "a" -> 97 [] c = "b" -> 98
      [] c = "{" -> 123 [] c = "}" -> 125

\* -1, 0 or 1: lexicographic comparison of two sequences of weights
RECURSIVE LexCompare(_, _)
LexCompare(wa, wb) ==
    IF wa = <<>> /\ wb = <<>> THEN 0
    ELSE IF wa = <<>> THEN -1
    ELSE IF wb = <<>> THEN 1
    ELSE IF Head(wa) < Head(wb) THEN -1
    ELSE IF Head(wa) > Head(wb) THEN 1
    ELSE LexCompare(Tail(wa), Tail(wb))

CodeUnitCompare(a, b) ==
    LexCompare([i \in 1..Len(a) |-> CodeUnit(a[i])], [i \in 1..Len(b) |-> CodeUnit(b[i])])

localeCompare(a, b) ==
    LET p == LexCompare([i \in 1..Len(a) |-> Primary(a[i])],
                        [i \in 1..Len(b) |-> Primary(b[i])])
    IN  IF p # 0 THEN p
        ELSE LexCompare([i \in 1..Len(a) |-> Tertiary(a[i])],
                        [i \in 1..Len(b) |-> Tertiary(b[i])])

(***************************************************************************)
(* Set<string>: add keeps the first insertion of a value.                  *)
(***************************************************************************)
SetAdd(s, x) == IF x \in Range(s) THEN s ELSE Append(s, x)

RECURSIVE SetAddAll(_, _)
SetAddAll(s, xs) ==
    IF xs = <<>> THEN s ELSE SetAddAll(SetAdd(s, Head(xs)), Tail(xs))

RECURSIVE Flatten(_)
Flatten(ss) == IF ss = <<>> THEN <<>> ELSE Head(ss) \o Flatten(Tail(ss))

(***************************************************************************)
(* flat.sort((a, b) => a.localeCompare(b, 'en')): a stable sort.           *)
(***************************************************************************)
RECURSIVE InsertSorted(_, _)
InsertSorted(s, x) ==
    IF s = <<>> THEN <<x>>
    ELSE IF localeCompare(x, Head(s)) < 0 THEN <<x>> \o s
    ELSE <<Head(s)>> \o InsertSorted(Tail(s), x)

RECURSIVE StableSort(_)
StableSort(s) ==
    IF s = <<>> THEN <<>>
    ELSE InsertSorted(StableSort(SubSeq(s, 1, Len(s) - 1)), s[Len(s)])

\* flat.sort(): the same by UTF-16 code units
RECURSIVE InsertByCodeUnits(_, _)
InsertByCodeUnits(s, x) ==
    IF s = <<>> THEN <<x>>
    ELSE IF CodeUnitCompare(x, Head(s)) < 0 THEN <<x>> \o s
    ELSE <<Head(s)>> \o InsertByCodeUnits(Tail(s), x)

RECURSIVE SortByCodeUnits(_)
SortByCodeUnits(s) ==
    IF s = <<>> THEN <<>>
    ELSE InsertByCodeUnits(SortByCodeUnits(SubSeq(s, 1, Len(s) - 1)), s[Len(s)])

(***************************************************************************)
(* The pattern compiler, new Minimatch(p, mmo): brace expansion into the   *)
(* alternatives' glob strings (globSet), each split on "/" (globParts,     *)
(* empty segments kept: preserveMultipleSlashes) and parsed (set).  The    *)
(* empty pattern has no alternative.  rejected is the set of patterns the  *)
(* compiler refuses (malformed input).                                     *)
(***************************************************************************)
BraceExpand(p) ==
    LET i == FirstIdx(p, "{")
        j == FirstIdx(p, "}")
    IN  IF i = 0 \/ j < i \/ "," \notin Range(SubSeq(p, i + 1, j - 1))
        THEN <<p>>
        ELSE LET items == SplitOn(SubSeq(p, i + 1, j - 1), ",")
             IN  [k \in 1..Len(items) |->
                    SubSeq(p, 1, i - 1) \o items[k] \o SubSeq(p, j + 1, Len(p))]

ParsePart(seg, noglobstar) ==
    IF seg = <<"*", "*">> /\ ~noglobstar THEN <<"GLOBSTAR">>
    ELSE IF "*" \in Range(seg) THEN <<"RegExp">> \o seg
    ELSE seg

Minimatch(p, noglobstar, rejected) ==
    LET gs == IF p = <<>> THEN <<>> ELSE BraceExpand(p)
    IN  [throws    |-> p \in rejected,
         globSet   |-> gs,
         globParts |-> [k \in 1..Len(gs) |-> SplitOn(gs[k], "/")],
         set       |-> [k \in 1..Len(gs) |->
                          LET parts == SplitOn(gs[k], "/")
                          IN  [n \in 1..Len(parts) |-> ParsePart(parts[n], noglobstar)]]]

(***************************************************************************)
(* Glob.constructor (glob.ts 45-112).  in is the call: the pattern         *)
(* argument, the options bag and process.platform.  The result says        *)
(* whether the constructor threw, how many times it had called the         *)
(* compiler by then, and the fields of the instance.  this.matches and     *)
(* this.cache are objects: they live in heap[0] and cache.                 *)
(***************************************************************************)
NoGlob == [none |-> TRUE]

\* glob.ts 71-73: the mutant maps over the characters of a string argument
PatternListChars(in) ==
    IF in.patternIsString
    THEN [i \in 1..Len(in.patternString) |-> <<in.patternString[i]>>]
    ELSE in.patternArray

PatternList(in) ==
    IF in.patternIsString THEN <<in.patternString>> ELSE in.patternArray

\* glob.ts 75-77
WindowsPathsNoEscapeDirect(in) == in.windowsPathsNoEscape

WindowsPathsNoEscape(in) ==
    in.windowsPathsNoEscape \/ in.allowWindowsEscape = "false"

\* glob.ts 79-81
NormalizedPatterns(in) ==
    LET pat == PatternList(in)
    IN  IF WindowsPathsNoEscape(in)
        THEN [i \in 1..Len(pat) |-> ReplaceBackslashes(pat[i])]
        ELSE pat

\* glob.ts 83-86: the mutant raises the error only for a bare pattern
ConfigErrorBareOnly(in) ==
    /\ in.matchBase
    /\ in.noglobstar
    /\ \E i \in 1..Len(NormalizedPatterns(in)) : ~IncludesSlash(NormalizedPatterns(in)[i])

ConfigError(in) == in.matchBase /\ in.noglobstar

\* glob.ts 83-90: the mutant looks for a separator before the backslashes
\* have become separators
RewrittenUnnormalized(in) ==
    LET raw == PatternList(in)
        pat == NormalizedPatterns(in)
    IN  IF in.matchBase
        THEN [i \in 1..Len(pat) |->
                IF IncludesSlash(raw[i]) THEN pat[i] ELSE GlobstarPrefix(pat[i])]
        ELSE pat

RewrittenPatterns(in) ==
    LET pat == NormalizedPatterns(in)
    IN  IF in.matchBase
        THEN [i \in 1..Len(pat) |->
                IF IncludesSlash(pat[i]) THEN pat[i] ELSE GlobstarPrefix(pat[i])]
        ELSE pat

\* glob.ts 59-62
Cwd(in) == IF in.platform = "win32" THEN ReplaceBackslashes(in.cwd) ELSE in.cwd

\* glob.ts 100-108: the three views of every alternative of every pattern,
\* pushed in step; the mutant prepends the glob strings of each pattern
FlattenViewsDrift(mms) ==
    [matchSet  |-> Flatten([i \in 1..Len(mms) |-> mms[i].set]),
     globSet   |-> Flatten([i \in 1..Len(mms) |-> mms[Len(mms) + 1 - i].globSet]),
     globParts |-> Flatten([i \in 1..Len(mms) |-> mms[i].globParts])]

FlattenViews(mms) ==
    [matchSet  |-> Flatten([i \in 1..Len(mms) |-> mms[i].set]),
     globSet   |-> Flatten([i \in 1..Len(mms) |-> mms[i].globSet]),
     globParts |-> Flatten([i \in 1..Len(mms) |-> mms[i].globParts])]

Constructor(in) ==
    LET pat  == RewrittenPatterns(in)
        mms  == [i \in 1..Len(pat) |-> Minimatch(pat[i], in.noglobstar, in.rejected)]
        bad  == {i \in 1..Len(pat) : mms[i].throws}
        stop == IF bad = {} THEN 0 ELSE CHOOSE i \in bad : \A j \in bad : i <= j
        err  == IF ConfigError(in) THEN "config"
                ELSE IF stop # 0 THEN "compile" ELSE "none"
    IN  [err          |-> err,
         compileCalls |-> IF err = "config" THEN 0
                          ELSE IF err = "compile" THEN stop ELSE Len(pat),
         glob |->
            IF err # "none" THEN NoGlob
            ELSE [nounique  |-> in.nounique,
                  nosort    |-> in.nosort,
                  nonull    |-> in.nonull,
                  cwd       |-> Cwd(in),
                  noglobstar |-> in.noglobstar,
                  matchBase |-> in.matchBase,
                  windowsPathsNoEscape |-> WindowsPathsNoEscape(in),
                  pattern   |-> pat,
                  matchSet  |-> FlattenViews(mms).matchSet,
                  globSet   |-> FlattenViews(mms).globSet,
                  globParts |-> FlattenViews(mms).globParts]]

\* number of compiled alternatives of the current instance
NAlt == IF glob = NoGlob THEN 0 ELSE Len(glob.matchSet)

(***************************************************************************)
(* The traversal engine (walker.ts, readdir.ts).  A GlobWalker built on a  *)
(* Glob collects its matches in the Glob's matches Set when there is one   *)
(* (nounique unset) and in a Set of its own otherwise; walk() resolves to  *)
(* that Set.  It reads the directory tree through the cache.               *)
(***************************************************************************)
WalkerSet(g, i) == IF g.nounique THEN i ELSE 0

\* new Pattern(set, this.globParts[i], 0) (glob.ts 117, 126); the mutant
\* pairs matchable form i with the parsed segments of the next alternative
NewPatternShifted(g, i) ==
    [set |-> g.matchSet[i], parts |-> g.globParts[(i % Len(g.globParts)) + 1]]

NewPattern(g, i) == [set |-> g.matchSet[i], parts |-> g.globParts[i]]

\* this.getWalker(p) (glob.ts 159-161) and the call of walk()/walkSync():
\* the walker of alternative i of instance inst, its options being the Glob
GetWalker(g, i, inst, pc) ==
    [pc |-> pc, todo |-> <<>>, calls |-> 1,
     pattern |-> NewPattern(g, i), options |-> inst]

Readdir(c, key) == IF key \in DOMAIN c THEN c[key] ELSE fs[key]

CacheAdd(c, key, entries) ==
    [k \in DOMAIN c \cup {key} |-> IF k \in DOMAIN c THEN c[k] ELSE entries]

(***************************************************************************)
(* Glob.doNonull (glob.ts 132-143) on the array matches of Set handles:    *)
(* the heap after it.                                                      *)
(***************************************************************************)
\* the mutant tests emptiness while it inserts
RECURSIVE doNonullFrom(_, _, _, _)
doNonullFrom(g, h, matches, i) ==
    IF i > Len(matches) THEN h
    ELSE doNonullFrom(g,
            IF h[matches[i]] = <<>> /\ g.nonull
            THEN [h EXCEPT ![matches[1]] = SetAdd(@, g.globSet[i])]
            ELSE h,
            matches, i + 1)

doNonullEager(g, h, matches) == doNonullFrom(g, h, matches, 1)

Nulls(g, h, matches) ==
    LET idx == SelectSeq([i \in 1..Len(matches) |-> i],
                         LAMBDA i : h[matches[i]] = <<>> /\ g.nonull)
    IN  [k \in 1..Len(idx) |-> g.globSet[idx[k]]]

doNonull(g, h, matches) ==
    LET nulls == Nulls(g, h, matches)
    IN  IF nulls = <<>> THEN h
        ELSE [h EXCEPT ![matches[1]] = SetAddAll(@, nulls)]

(***************************************************************************)
(* Glob.sort (glob.ts 155-157) and Glob.finish (glob.ts 145-153).          *)
(***************************************************************************)
sortCodeUnits(flat) == SortByCodeUnits(flat)

sortNothing(flat) == flat

sort(flat) == StableSort(flat)

\* glob.ts 146-151
rawAlways(g, h, matches) ==
    h[matches[1]] \o Flatten([i \in 1..Len(matches) |-> h[matches[i]]])

raw(g, h, matches) ==
    h[matches[1]] \o
        (IF g.nounique
         THEN Flatten([i \in 1..Len(matches) |-> h[matches[i]]])
         ELSE <<>>)

\* the mutant returns the reduction in insertion order whatever nosort says
finishUnsorted(g, h, matches) ==
    IF matches = <<>>
    THEN [throws |-> TRUE, value |-> <<>>, raw |-> <<>>]
    ELSE [throws |-> FALSE, value |-> raw(g, h, matches),
          raw |-> raw(g, h, matches)]

\* the mutant returns the empty array when there is no alternative
finishEmpty(g, h, matches) ==
    IF matches = <<>>
    THEN [throws |-> FALSE, value |-> <<>>, raw |-> <<>>]
    ELSE [throws |-> FALSE,
          value  |-> IF g.nosort THEN raw(g, h, matches) ELSE sort(raw(g, h, matches)),
          raw    |-> raw(g, h, matches)]

\* [...matches[0]] throws a TypeError when there is no alternative; raw is
\* the array before the sort
finish(g, h, matches) ==
    IF matches = <<>>
    THEN [throws |-> TRUE, value |-> <<>>, raw |-> <<>>]
    ELSE [throws |-> FALSE,
          value  |-> IF g.nosort THEN raw(g, h, matches) ELSE sort(raw(g, h, matches)),
          raw    |-> raw(g, h, matches)]

(***************************************************************************)
(* The caller's inputs.                                                    *)
(***************************************************************************)
PathA  == <<"a">>
PathB  == <<"B">>
Paths  == {PathA, PathB}

\* what one traversal can discover: distinct paths, in discovery order
ResSeqs ==
    {s \in UNION {[1..n -> Paths] : n \in 0..Cardinality(Paths)} :
        \A i, j \in 1..Len(s) : i # j => s[i] # s[j]}

DefaultOptions ==
    [nosort |-> FALSE, nounique |-> FALSE, nonull |-> FALSE,
     matchBase |-> FALSE, noglobstar |-> FALSE,
     windowsPathsNoEscape |-> FALSE, allowWindowsEscape |-> "undefined",
     cwd |-> <<>>, platform |-> "linux", rejected |-> {}]

\* the pattern argument: a string (ArgString) or an array of strings (ArgArray)
ArgString(p) == [patternIsString |-> TRUE, patternString |-> p, patternArray |-> <<>>]

ArgArray(ps) == [patternIsString |-> FALSE, patternString |-> <<>>, patternArray |-> ps]

\* glob("a"), glob(["a", "a"]), glob(["a", "*"])
RunPatterns ==
    {ArgString(<<"a">>), ArgArray(<<<<"a">>, <<"a">>>>),
     ArgArray(<<<<"a">>, <<"*">>>>)}

RunInputs ==
    {a @@ [DefaultOptions EXCEPT !.nosort = s, !.nounique = u, !.nonull = n] :
        a \in RunPatterns, s \in BOOLEAN, u \in BOOLEAN, n \in BOOLEAN}

\* the alternatives the constructor compiles from in, by parsed-segment form
AltKeys(in) ==
    IF Constructor(in).err # "none" THEN {}
    ELSE Range(Constructor(in).glob.globParts)

\* pre[i] is the content of matches[i] when doNonull received it
NoCall == [mode |-> "none", status |-> "none", out |-> <<>>, raw |-> <<>>,
           pre |-> <<>>]

InitWith(inputs, results, failures) ==
    /\ input \in inputs
    /\ fs \in [AltKeys(input) -> results]
    /\ fsFail \in {{}} \cup (IF failures THEN {{k} : k \in AltKeys(input)} ELSE {})
    /\ glob = NoGlob
    /\ ctor = [called |-> FALSE, err |-> "none", compileCalls |-> 0]
    /\ heap = [i \in {0} |-> <<>>]
    /\ cache = <<>>
    /\ walk = <<>>
    /\ call = NoCall
    /\ hist = <<>>
    /\ nInst = 0

Init == InitWith(RunInputs, ResSeqs, TRUE)

\* the constructor's inputs: bare, backslash, brace, empty and malformed
\* patterns under every combination of the flags it reads; the compiler
\* refuses the malformed ones
Malformed == {<<"{">>, GlobstarPrefix(<<"{">>)}

CtorPatterns ==
    {ArgString(<<"a">>),
     ArgString(<<"a", "\\", "*">>),
     ArgString(<<>>),
     ArgArray(<<>>),
     ArgArray(<<<<"a", "/", "*">>, <<"{", "a", ",", "*", "}">>>>),
     ArgArray(<<<<"a", "/", "*">>, <<"{">>>>)}

CtorInputs ==
    {a @@ [DefaultOptions EXCEPT
             !.matchBase = mb, !.noglobstar = ng, !.windowsPathsNoEscape = w,
             !.allowWindowsEscape = e, !.platform = pf,
             !.cwd = <<"a", "\\", "b">>, !.rejected = Malformed] :
        a \in CtorPatterns, mb \in BOOLEAN, ng \in BOOLEAN, w \in BOOLEAN,
        e \in {"undefined", "true", "false"}, pf \in {"linux", "win32"}}

InitCtor == InitWith(CtorInputs, {<<>>, <<PathA>>}, FALSE)

(***************************************************************************)
(* Actions.                                                                *)
(***************************************************************************)
Quiescent == \A i \in 1..Len(walk) : walk[i].pc \in {"idle", "done", "failed"}

Idle == [pc |-> "idle", todo |-> <<>>, calls |-> 0,
         pattern |-> [set |-> <<>>, parts |-> <<>>], options |-> 0]

\* new Glob(pattern, options); the caller passes the cache it already holds
\* (options.cache) or none
Construct ==
    /\ nInst < MaxInst
    /\ call.status # "pending"
    /\ Quiescent
    /\ \E supplied \in BOOLEAN :
         cache' = IF supplied THEN cache ELSE <<>>
    /\ LET r == Constructor(input)
           n == IF r.err = "none" THEN Len(r.glob.matchSet) ELSE 0
       IN  /\ ctor' = [called |-> TRUE, err |-> r.err, compileCalls |-> r.compileCalls]
           /\ glob' = r.glob
           /\ heap' = [i \in 0..n |-> <<>>]
           /\ walk' = [i \in 1..n |-> Idle]
    /\ call' = NoCall
    /\ nInst' = nInst + 1
    /\ UNCHANGED <<input, fs, fsFail, hist>>

Done(mode, status, out) ==
    Append(hist, [mode |-> mode, inst |-> nInst, status |-> status, out |-> out])

\* Promise.all: fulfilled once every walk() has fulfilled
PromiseAllAny(w) == \E i \in 1..Len(w) : w[i].pc = "done"

PromiseAll(w) == \A i \in 1..Len(w) : w[i].pc = "done"

\* a walk that fails fails the match operation: Promise.all rejects with it
\* (glob.ts 115-120), the exception leaves processSync (glob.ts 125-128)
RejectedNever(w) == FALSE

Rejected(w) == \E i \in 1..Len(w) : w[i].pc = "failed"

\* process(), up to its await: every walk() is called (glob.ts 115-120)
Process ==
    /\ glob # NoGlob
    /\ call.status # "pending"
    /\ Quiescent
    /\ Len(hist) < MaxRuns
    /\ walk' = [i \in 1..NAlt |-> GetWalker(glob, i, nInst, "started")]
    /\ heap' = [i \in 0..NAlt |-> IF i = 0 THEN heap[0] ELSE <<>>]
    /\ call' = [NoCall EXCEPT !.mode = "async", !.status = "pending"]
    /\ UNCHANGED <<input, fs, fsFail, glob, ctor, cache, hist, nInst>>

\* walker i reads its root through the cache; an unreadable root rejects
\* walk(), and with it Promise.all and process()
WalkRead(i) ==
    /\ i \in 1..Len(walk)
    /\ walk[i].pc = "started"
    /\ LET key     == walk[i].pattern.parts
           entries == Readdir(cache, key)
           w       == IF key \in fsFail
                      THEN [walk EXCEPT ![i].pc = "failed"]
                      ELSE [walk EXCEPT
                              ![i].pc = IF entries = <<>> THEN "done" ELSE "walking",
                              ![i].todo = entries]
       IN  /\ walk' = w
           /\ cache' = IF key \in fsFail THEN cache ELSE CacheAdd(cache, key, entries)
           /\ IF call.status = "pending" /\ Rejected(w)
              THEN /\ call' = [call EXCEPT !.status = "rejected"]
                   /\ hist' = Done("async", "rejected", <<>>)
              ELSE UNCHANGED <<call, hist>>
    /\ UNCHANGED <<input, fs, fsFail, glob, ctor, heap, nInst>>

\* walker i adds the next path it discovers to its Set
WalkMatch(i) ==
    /\ i \in 1..Len(walk)
    /\ walk[i].pc = "walking"
    /\ heap' = [heap EXCEPT ![WalkerSet(glob, i)] = SetAdd(@, Head(walk[i].todo))]
    /\ walk' = [walk EXCEPT
                  ![i].todo = Tail(@),
                  ![i].pc = IF Tail(walk[i].todo) = <<>> THEN "done" ELSE "walking"]
    /\ UNCHANGED <<input, fs, fsFail, glob, ctor, cache, call, hist, nInst>>

\* the outcome of this.finish(this.doNonull(matches))
Reduce(mode, matches, h) ==
    LET h1 == doNonull(glob, h, matches)
        f  == finish(glob, h1, matches)
    IN  /\ heap' = h1
        /\ call' = [mode   |-> mode,
                    status |-> IF f.throws THEN "rejected" ELSE "fulfilled",
                    out    |-> f.value,
                    raw    |-> f.raw,
                    pre    |-> IF f.throws THEN <<>>
                               ELSE [i \in 1..Len(matches) |-> h[matches[i]]]]
        /\ hist' = Done(mode, IF f.throws THEN "rejected" ELSE "fulfilled", f.value)

\* process() after its await (glob.ts 121)
ProcessResume ==
    /\ call.mode = "async"
    /\ call.status = "pending"
    /\ PromiseAll(walk)
    /\ Reduce("async", [i \in 1..NAlt |-> WalkerSet(glob, i)], heap)
    /\ UNCHANGED <<input, fs, fsFail, glob, ctor, cache, walk, nInst>>

\* matchSet.map of processSync (glob.ts 125-128) from alternative i on:
\* the heap, the cache, the walkers, and the alternative whose walkSync()
\* threw (0: none).  The mutant walks every alternative and throws afterwards.
RECURSIVE WalkAllSyncThenThrow(_, _, _)
WalkAllSyncThenThrow(h, c, i) ==
    IF i > NAlt THEN [heap |-> h, cache |-> c, failed |-> 0, walk |-> <<>>]
    ELSE LET w   == GetWalker(glob, i, nInst, "done")
             key == w.pattern.parts
         IN  IF key \in fsFail
             THEN LET r == WalkAllSyncThenThrow(h, c, i + 1)
                  IN  [r EXCEPT !.failed = i,
                                !.walk = <<[w EXCEPT !.pc = "failed"]>> \o @]
             ELSE LET entries == Readdir(c, key)
                      r == WalkAllSyncThenThrow(
                             [h EXCEPT ![WalkerSet(glob, i)] = SetAddAll(@, entries)],
                             CacheAdd(c, key, entries), i + 1)
                  IN  [r EXCEPT !.walk = <<w>> \o @]

RECURSIVE WalkAllSync(_, _, _)
WalkAllSync(h, c, i) ==
    IF i > NAlt THEN [heap |-> h, cache |-> c, failed |-> 0, walk |-> <<>>]
    ELSE LET w   == GetWalker(glob, i, nInst, "done")
             key == w.pattern.parts
         IN  IF key \in fsFail
             THEN [heap |-> h, cache |-> c, failed |-> i,
                   walk |-> <<[w EXCEPT !.pc = "failed"]>> \o
                            [j \in 1..(NAlt - i) |-> Idle]]
             ELSE LET entries == Readdir(c, key)
                      r == WalkAllSync(
                             [h EXCEPT ![WalkerSet(glob, i)] = SetAddAll(@, entries)],
                             CacheAdd(c, key, entries), i + 1)
                  IN  [r EXCEPT !.walk = <<w>> \o @]

\* processSync() (glob.ts 124-130)
ProcessSync ==
    /\ glob # NoGlob
    /\ call.status # "pending"
    /\ Quiescent
    /\ Len(hist) < MaxRuns
    /\ LET r == WalkAllSync([i \in 0..NAlt |-> IF i = 0 THEN heap[0] ELSE <<>>],
                            cache, 1)
       IN  /\ cache' = r.cache
           /\ walk' = r.walk
           /\ IF Rejected(r.walk)
              THEN /\ heap' = r.heap
                   /\ call' = [NoCall EXCEPT !.mode = "sync", !.status = "rejected"]
                   /\ hist' = Done("sync", "rejected", <<>>)
              ELSE Reduce("sync", [i \in 1..NAlt |-> WalkerSet(glob, i)], r.heap)
    /\ UNCHANGED <<input, fs, fsFail, glob, ctor, nInst>>

Next ==
    \/ Construct
    \/ Process
    \/ \E i \in 1..Len(walk) : WalkRead(i)
    \/ \E i \in 1..Len(walk) : WalkMatch(i)
    \/ ProcessResume
    \/ ProcessSync

Spec == Init /\ [][Next]_vars

SpecCtor == InitCtor /\ [][Next]_vars

(***************************************************************************)
(* Vocabulary of the properties.                                           *)
(***************************************************************************)
Fulfilled == glob # NoGlob /\ call.status = "fulfilled"

\* what the traversal of alternative i finds in the filesystem
Result(i) == fs[glob.globParts[i]]

Count(s, x) == Cardinality({i \in 1..Len(s) : s[i] = x})

NoRepeats(s) == \A i, j \in 1..Len(s) : i # j => s[i] # s[j]

\* the array of Sets that doNonull and finish received, as their contents
MatchSets == [i \in 1..NAlt |-> heap[WalkerSet(glob, i)]]

\* the literals of the alternatives that found nothing, under nonull
Fallbacks ==
    IF glob.nonull THEN {glob.globSet[i] : i \in {j \in 1..NAlt : Result(j) = <<>>}}
    ELSE {}

(***************************************************************************)
(* C1  Deduplication: with nounique unset, every path of the output of    *)
(* process()/processSync() occurs in it exactly once, also when two        *)
(* alternatives matched it.                                                *)
(***************************************************************************)
C1_Deduplication ==
    (Fulfilled /\ ~glob.nounique) => NoRepeats(call.out)

\* two different alternatives both matched a path, and it is in the output
C1_Witness ==
    /\ Fulfilled /\ ~glob.nounique /\ NAlt = 2
    /\ glob.globSet[1] # glob.globSet[2]
    /\ \E p \in Range(Result(1)) \cap Range(Result(2)) : Count(call.out, p) = 1

(***************************************************************************)
(* C2  Union completeness: with nosort set, a string is in the output if   *)
(* and only if some alternative (at any index) matched it or it is the     *)
(* literal of an alternative that matched nothing under nonull.            *)
(***************************************************************************)
C2_UnionComplete ==
    (Fulfilled /\ glob.nosort) =>
        Range(call.out) = UNION {Range(Result(i)) : i \in 1..NAlt} \cup Fallbacks

(***************************************************************************)
(* C3  Null-glob fallback: with nonull set, the literal glob string of     *)
(* every alternative whose traversal found nothing is in the output,       *)
(* whatever the other alternatives matched.                                *)
(***************************************************************************)
C3_NullGlobFallback ==
    (Fulfilled /\ glob.nonull) =>
        \A i \in 1..NAlt : Result(i) = <<>> => glob.globSet[i] \in Range(call.out)

(***************************************************************************)
(* C8  Unsorted order: with nosort set the output is result set 0 in       *)
(* discovery order, followed, only under nounique, by the result sets of   *)
(* the alternatives 1, 2, ... in order; under nounique its length is the   *)
(* sum of the sizes of the result sets.                                    *)
(***************************************************************************)
C8_UnsortedOrder ==
    (Fulfilled /\ glob.nosort) =>
        call.out = MatchSets[1] \o
                     (IF glob.nounique
                      THEN Flatten(SubSeq(MatchSets, 2, NAlt))
                      ELSE <<>>)

(***************************************************************************)
(* C9  Sorted output: unless nosort is set, the output is in               *)
(* non-decreasing order under localeCompare(., 'en') and is a permutation  *)
(* of the unsorted reduction.                                              *)
(***************************************************************************)
C9_SortedOutput ==
    (Fulfilled /\ ~glob.nosort) =>
        /\ \A i \in 1..(Len(call.out) - 1) :
              localeCompare(call.out[i], call.out[i + 1]) <= 0
        /\ Len(call.out) = Len(call.raw)
        /\ \A x \in Range(call.out) \cup Range(call.raw) :
              Count(call.out, x) = Count(call.raw, x)

\* the traversal discovered "B" before "a"; the output is ["a", "B"]
C9_Witness ==
    /\ Fulfilled /\ ~glob.nosort
    /\ call.raw = <<PathB, PathA>>
    /\ call.out = <<PathA, PathB>>

(***************************************************************************)
(* C4  Invalid configuration: new Glob with matchBase and noglobstar both  *)
(* set throws the configuration error for every pattern argument, before   *)
(* the compiler is called and with no traversal, cache access or output;   *)
(* with either flag unset that error is never raised.                      *)
(***************************************************************************)
C4_InvalidConfiguration ==
    ctor.called =>
        /\ (input.matchBase /\ input.noglobstar) =>
              /\ ctor.err = "config"
              /\ ctor.compileCalls = 0
              /\ glob = NoGlob
              /\ walk = <<>> /\ cache = <<>> /\ hist = <<>>
              /\ call.status = "none"
        /\ ctor.err = "config" => (input.matchBase /\ input.noglobstar)

\* both flags set and a pattern the compiler would refuse
C4_Witness ==
    /\ ctor.called /\ ctor.err = "config" /\ ctor.compileCalls = 0
    /\ \E i \in 1..Len(PatternList(input)) : PatternList(input)[i] \in input.rejected

(***************************************************************************)
(* C5  Fan-in barrier: process() starts every traversal before it waits,   *)
(* and its result exists only when every traversal has completed: the      *)
(* output holds what every alternative found.                              *)
(***************************************************************************)
C5_FanInBarrier ==
    (glob # NoGlob /\ call.mode = "async") =>
        /\ call.status = "pending" =>
              \A i \in 1..NAlt : walk[i].calls = 1 /\ walk[i].pc # "idle"
        /\ call.status = "fulfilled" =>
              /\ \A i \in 1..NAlt : walk[i].pc = "done"
              /\ \A i \in 1..NAlt : Range(Result(i)) \subseteq Range(call.out)

C5_Witness ==
    /\ Fulfilled /\ call.mode = "async" /\ NAlt = 2
    /\ Result(1) # <<>> /\ Result(2) # <<>> /\ Result(1) # Result(2)

(***************************************************************************)
(* C6  Mode equivalence.  As claimed: processSync() and process() end the  *)
(* same way and return the same sequence, under every interleaving and     *)
(* every combination of nosort, nounique and nonull.                       *)
(***************************************************************************)
C6_ModeEquivalence ==
    \A i, j \in 1..Len(hist) :
        hist[i].mode # hist[j].mode =>
            hist[i].status = hist[j].status /\ hist[i].out = hist[j].out

(***************************************************************************)
(* C6 as amended: the two modes end the same way; they return the same     *)
(* sequence when nosort is unset or nounique is set, and with nosort set   *)
(* and nounique unset the same strings, each as often, in an order that    *)
(* may differ.                                                             *)
(***************************************************************************)
C6_ModeEquivalenceAmended ==
    \A i, j \in 1..Len(hist) :
        hist[i].mode # hist[j].mode =>
            /\ hist[i].status = hist[j].status
            /\ IF input.nosort /\ ~input.nounique
               THEN /\ Len(hist[i].out) = Len(hist[j].out)
                    /\ \A x \in Range(hist[i].out) \cup Range(hist[j].out) :
                          Count(hist[i].out, x) = Count(hist[j].out, x)
               ELSE hist[i].out = hist[j].out

\* one run in each mode, on two instances, both returning two paths
C6_Witness ==
    /\ Len(hist) = 2
    /\ hist[1].mode # hist[2].mode /\ hist[1].inst # hist[2].inst
    /\ hist[1].status = "fulfilled" /\ hist[2].status = "fulfilled"
    /\ Len(hist[2].out) >= 2
    /\ NAlt = 2 /\ Result(1) # <<>> /\ Result(2) # <<>> /\ Result(1) # Result(2)

(***************************************************************************)
(* C7  Idempotence: with nosort and nounique unset, two match operations   *)
(* with the same configuration on an unchanged filesystem end the same     *)
(* way with the same output, on the same instance or on a new one.         *)
(***************************************************************************)
C7_Idempotence ==
    (~input.nosort /\ ~input.nounique) =>
        \A i, j \in 1..Len(hist) :
            hist[i].status = hist[j].status /\ hist[i].out = hist[j].out

\* the second run is on the instance that kept the first run's matches
C7_Witness ==
    /\ ~input.nosort /\ ~input.nounique
    /\ Len(hist) = 2 /\ hist[1].inst = hist[2].inst
    /\ hist[1].status = "fulfilled" /\ hist[2].status = "fulfilled"
    /\ Len(hist[2].out) >= 2

(***************************************************************************)
(* C10  Failure as a single unit: when the traversal of an alternative     *)
(* fails, the match operation fails and returns no output; no traversal    *)
(* is run twice and no failed traversal counts as an empty result.         *)
(***************************************************************************)
C10_FailureAsUnit ==
    /\ call.status = "rejected" => call.out = <<>>
    /\ \A k \in 1..Len(hist) : hist[k].status = "rejected" => hist[k].out = <<>>
    /\ (\E i \in 1..Len(walk) : walk[i].pc = "failed") => call.status = "rejected"
    /\ Fulfilled => \A i \in 1..NAlt : glob.globParts[i] \notin fsFail
    /\ \A i \in 1..Len(walk) : walk[i].calls <= 1

\* one alternative matched a path, the other failed: the caller gets no output
C10_Witness ==
    /\ call.status = "rejected" /\ call.mode = "async" /\ NAlt = 2
    /\ \E i, j \in 1..NAlt :
          /\ walk[i].pc = "failed"
          /\ walk[j].pc = "done" /\ Result(j) # <<>>

(***************************************************************************)
(* Construction and the three aligned views.                               *)
(***************************************************************************)
\* the number of patterns the caller passed: a string is one pattern
NumPatterns == IF input.patternIsString THEN 1 ELSE Len(input.patternArray)

\* a step that is a call of the constructor
IsConstruct == nInst' # nInst

Compiled(k) == Minimatch(glob.pattern[k], glob.noglobstar, {})

\* the number of alternatives of the patterns before the k-th
AltOffset(k) ==
    LET off[n \in 0..Len(glob.pattern)] ==
            IF n = 0 THEN 0 ELSE off[n - 1] + Len(Compiled(n).globSet)
    IN  off[k - 1]

\* C12: matchSet, globSet and globParts have the same length, and the j-th
\* alternative of the k-th pattern is at the same index of all three, after
\* the alternatives of the earlier patterns and the earlier alternatives of
\* its own pattern, in every state of a match run
C12_Alignment ==
    glob # NoGlob =>
        /\ Len(glob.matchSet) = Len(glob.globSet)
        /\ Len(glob.globSet) = Len(glob.globParts)
        /\ Len(glob.globSet) = AltOffset(Len(glob.pattern) + 1)
        /\ \A k \in 1..Len(glob.pattern) :
             \A j \in 1..Len(Compiled(k).globSet) :
                /\ glob.matchSet[AltOffset(k) + j] = Compiled(k).set[j]
                /\ glob.globSet[AltOffset(k) + j] = Compiled(k).globSet[j]
                /\ glob.globParts[AltOffset(k) + j] = Compiled(k).globParts[j]

\* two patterns, the second with two alternatives, after a completed run
C12_Witness ==
    /\ Fulfilled
    /\ Len(glob.pattern) = 2 /\ NAlt = 3
    /\ glob.globSet[1] # glob.globSet[2] /\ glob.globSet[2] # glob.globSet[3]

(***************************************************************************)
(* The null-glob fallback as a two-phase step.                             *)
(***************************************************************************)
\* the literals doNonull records: those of the alternatives whose Set was
\* empty when doNonull received the array
Recorded ==
    IF glob.nonull
    THEN {glob.globSet[i] : i \in {j \in 1..NAlt : call.pre[j] = <<>>}}
    ELSE {}

Called == glob # NoGlob /\ call.status # "none"

\* the match operation has ended, either way
Ended == glob # NoGlob /\ call.status \in {"fulfilled", "rejected"}

\* walker i was given matchable form i with parsed segments i, and the Glob
\* itself (its configuration and its cache) as options
Paired(i) ==
    /\ walk[i].pattern = [set |-> glob.matchSet[i], parts |-> glob.globParts[i]]
    /\ walk[i].options = nInst

\* the orchestrator's own steps leave the cache alone: a step of a match
\* operation removes and changes no entry, and adds entries only under the
\* roots of walkers that ran in it
CacheFrame ==
    /\ call.status = "pending" /\ call'.status = "fulfilled" => cache' = cache
    /\ call.status # "pending" /\ call'.status = "pending" => cache' = cache
    /\ ~IsConstruct =>
         /\ \A k \in DOMAIN cache : k \in DOMAIN cache' /\ cache'[k] = cache[k]
         /\ \A k \in DOMAIN cache' \ DOMAIN cache :
              \E i \in 1..Len(walk') :
                 /\ walk'[i].pattern.parts = k
                 /\ walk'[i].pc \in {"walking", "done"}
                 /\ cache'[k] = fs[k]

\* C14, as stated: a match operation that has ended has invoked the
\* traversal engine exactly once for every index of matchSet, with matchable
\* form i paired with parsed segments i and the same configuration and
\* cache; the orchestrator itself never inserts into or removes from the
\* cache
C14_OneTraversalEach ==
    /\ [](Ended => \A i \in 1..NAlt : walk[i].calls = 1 /\ Paired(i))
    /\ [][CacheFrame]_vars

\* C14, amended: at most one traversal per index, each paired and configured
\* alike; exactly one for every index once a concurrent operation was called
\* and when a sequential one returns; a sequential operation that fails has
\* walked exactly the indexes up to the failing one; the orchestrator itself
\* never inserts into or removes from the cache
C14_OneTraversalEachAmended ==
    /\ [](Called =>
            \A i \in 1..NAlt :
               /\ walk[i].calls \in {0, 1}
               /\ walk[i].calls = 1 => Paired(i)
               /\ call.mode = "async" \/ call.status = "fulfilled"
                    => walk[i].calls = 1
               /\ call.mode = "sync" /\ call.status = "rejected"
                    => (walk[i].calls = 1
                          <=> \A j \in 1..(i - 1) : walk[j].pc # "failed"))
    /\ [][CacheFrame]_vars

\* a run of two different alternatives returned: each was walked once, with
\* its own pair of forms, and each root's listing is in the cache
C14_Witness ==
    /\ Fulfilled /\ NAlt = 2
    /\ glob.globParts[1] # glob.globParts[2]
    /\ \A i \in 1..2 : walk[i].calls = 1 /\ Paired(i)
    /\ DOMAIN cache = {glob.globParts[1], glob.globParts[2]}

(***************************************************************************)
(* Separator normalization and the base-name rewrite.                      *)
(***************************************************************************)
\* the i-th pattern the caller passed
InputPattern(i) ==
    IF input.patternIsString THEN input.patternString ELSE input.patternArray[i]

\* the caller asked for backslashes to be separators, directly or by the
\* legacy flag
NoEscapeInEffect ==
    input.windowsPathsNoEscape \/ input.allowWindowsEscape = "false"

\* pattern p as it is compiled when normalize tells whether its backslashes
\* become separators
Expected(p, normalize) ==
    LET n == IF normalize
             THEN [k \in 1..Len(p) |-> IF p[k] = "\\" THEN "/" ELSE p[k]]
             ELSE p
    IN  IF input.matchBase /\ "/" \notin Range(n)
        THEN <<"*", "*", "/">> \o n
        ELSE n

\* C15: with matchBase set (and globstar enabled, or the constructor has
\* thrown) a pattern without separator after normalization is compiled as
\* **/<pattern> and a pattern with one is compiled as it is, a backslash
\* counting as separator under windowsPathsNoEscape; with matchBase unset
\* no pattern gets the prefix
C15_BaseNameRewrite ==
    glob # NoGlob =>
        /\ Len(glob.pattern) = NumPatterns
        /\ \A i \in 1..NumPatterns :
             LET p == InputPattern(i)
                 n == IF glob.windowsPathsNoEscape THEN ReplaceBackslashes(p) ELSE p
             IN  /\ input.matchBase /\ ~IncludesSlash(n)
                      => glob.pattern[i] = <<"*", "*", "/">> \o n
                 /\ input.matchBase /\ IncludesSlash(n) => glob.pattern[i] = n
                 /\ ~input.matchBase => glob.pattern[i] = n

\* a pattern whose only separator is a backslash, under matchBase and
\* windowsPathsNoEscape: normalized and not prefixed
C15_Witness ==
    /\ glob # NoGlob /\ input.matchBase /\ glob.windowsPathsNoEscape
    /\ input.patternIsString /\ input.patternString = <<"a", "\\", "*">>
    /\ glob.pattern = <<<<"a", "/", "*">>>>

\* C16, as stated: the backslashes of cwd are rewritten exactly on a platform
\* with backslash separators; those of the patterns exactly when
\* windowsPathsNoEscape is in effect and the platform has backslash
\* separators
C16_SeparatorNormalization ==
    glob # NoGlob =>
        /\ glob.cwd = IF input.platform = "win32"
                      THEN [k \in 1..Len(input.cwd) |->
                              IF input.cwd[k] = "\\" THEN "/" ELSE input.cwd[k]]
                      ELSE input.cwd
        /\ \A i \in 1..NumPatterns :
             glob.pattern[i] =
                Expected(InputPattern(i),
                         NoEscapeInEffect /\ input.platform = "win32")

\* C16, amended: the backslashes of cwd are rewritten exactly on a platform
\* with backslash separators; those of the patterns exactly when
\* windowsPathsNoEscape is in effect, on every platform
C16_SeparatorNormalizationAmended ==
    glob # NoGlob =>
        /\ glob.cwd = IF input.platform = "win32"
                      THEN [k \in 1..Len(input.cwd) |->
                              IF input.cwd[k] = "\\" THEN "/" ELSE input.cwd[k]]
                      ELSE input.cwd
        /\ \A i \in 1..NumPatterns :
             glob.pattern[i] = Expected(InputPattern(i), NoEscapeInEffect)

\* the legacy flag alone, away from Windows: the pattern is rewritten, cwd
\* keeps its backslash
C16_Witness ==
    /\ glob # NoGlob /\ input.platform = "linux"
    /\ ~input.windowsPathsNoEscape /\ input.allowWindowsEscape = "false"
    /\ ~input.matchBase
    /\ input.patternIsString /\ input.patternString = <<"a", "\\", "*">>
    /\ glob.pattern = <<<<"a", "/", "*">>>>
    /\ "\\" \in Range(glob.cwd)

(***************************************************************************)
(* No alternative at all.                                                  *)
(***************************************************************************)
\* C17: an empty pattern list is constructed without error (unless the
\* options are refused) and has no alternative; on an instance without
\* alternatives no traversal is ever started and nothing reaches the cache,
\* and every match operation, in either mode, ends in an error and returns
\* nothing
C17_ZeroAlternatives ==
    /\ ctor.called /\ NumPatterns = 0 /\ ~(input.matchBase /\ input.noglobstar)
         => ctor.err = "none" /\ glob # NoGlob /\ NAlt = 0
    /\ glob # NoGlob /\ NAlt = 0 =>
         /\ walk = <<>>
         /\ cache = <<>>
         /\ call.status \in {"none", "pending", "rejected"}
         /\ call.out = <<>>
         /\ \A k \in 1..Len(hist) :
              hist[k].status = "rejected" /\ hist[k].out = <<>>

\* the empty pattern list: process() and processSync() have both failed
C17_Witness ==
    /\ glob # NoGlob /\ NAlt = 0 /\ NumPatterns = 0
    /\ Len(hist) = 2
    /\ hist[1].mode # hist[2].mode
    /\ hist[1].status = "rejected" /\ hist[2].status = "rejected"

(***************************************************************************)
(* Failure without cancellation.                                           *)
(***************************************************************************)
\* the match operation failed because a traversal did
TraversalFailed == Called /\ call.status = "rejected" /\ Rejected(walk)

\* traversal i has been started and is not over
Running(i) == walk[i].pc \in {"started", "walking"}

\* C18: when a concurrent operation has failed, every alternative has had
\* its traversal started, and those still running can take their next step
\* and, reading their root, put its listing into the shared cache; when a
\* sequential operation has failed at alternative f, every alternative below
\* f has been walked to its end and none above f has been walked
C18_NoCancellation ==
    /\ [](TraversalFailed /\ call.mode = "async" =>
            \A i \in 1..NAlt :
               /\ walk[i].calls = 1
               /\ walk[i].pc = "started" => ENABLED WalkRead(i)
               /\ walk[i].pc = "walking" => ENABLED WalkMatch(i))
    /\ [](TraversalFailed /\ call.mode = "sync" =>
            \E f \in 1..NAlt :
               /\ walk[f].pc = "failed"
               /\ \A i \in 1..(f - 1) : walk[i].calls = 1 /\ walk[i].pc = "done"
               /\ \A i \in (f + 1)..NAlt : walk[i] = Idle)
    /\ [][TraversalFailed /\ call.mode = "async" =>
            \A i \in 1..NAlt :
               walk[i].pc = "started" /\ walk'[i].pc \in {"walking", "done"}
                  => /\ walk[i].pattern.parts \in DOMAIN cache'
                     /\ call' = call]_vars

\* process() has failed with the first traversal while the second has not
\* read its root yet: it still can, and the cache will get the listing
C18_Witness ==
    /\ TraversalFailed /\ call.mode = "async" /\ NAlt = 2
    /\ walk[1].pc = "failed" /\ walk[2].pc = "started"
    /\ walk[2].pattern.parts \notin DOMAIN cache
    /\ walk[2].pattern.parts \notin fsFail
    /\ ENABLED WalkRead(2)

====
